---------------------------- MODULE Spec2Model ----------------------------
(***************************************************************************)
(* A model of QuantumHashCracker (src/grover.py, src/groover1.py): the     *)
(* string <-> index codec, the Grover oracle / diffusion / circuit         *)
(* builders together with the gate semantics of the engine that runs the   *)
(* emitted gates, and the front part of quantum_search.                    *)
(*                                                                         *)
(* Characters are one-letter strings, a text is a sequence of characters,  *)
(* a charset is a duplicate-free sequence of characters.  Python's 0-based *)
(* positions are kept in the values (qubit numbers, charset.index), and    *)
(* turned into 1-based sequence positions only where a sequence is read.   *)
(***************************************************************************)
EXTENDS Integers, Sequences, FiniteSets

VARIABLES
    charset,            \* self.charset
    length,             \* the `length` argument (number of characters)
    \* ---- codec calls (text_to_index / index_to_text)
    arg,                \* the value the first call was given
    text,               \* the current text value
    index,              \* the current index value
    calls,              \* the calls made so far, in order
    raised,             \* the exception a call raised ("" when none)
    \* ---- circuit construction and execution
    builder,            \* which builder is under study
    n_qubits,           \* register width
    target_index,       \* the marked index
    iterations,         \* Grover iterations asked of create_grover_circuit
    qc,                 \* the circuit: the sequence of emitted operations
    psi0,               \* amplitudes before the first gate
    psi,                \* amplitudes now, scaled by Sqrt(2)^hs
    hs,                 \* number of Hadamards applied so far
    ip,                 \* number of operations of qc already executed
    dist,               \* the measurement's exact outcome distribution
    \* ---- quantum_search
    matches,            \* the texts t with simple_hash(t) = target_hash
    search_space,       \* local search_space
    quantum_iterations, \* self.quantum_iterations
    qs_pc,              \* position inside quantum_search
    result,             \* the value quantum_search returned
    counts,             \* local counts: the dict, as its items in order
    counts_from,        \* where counts came from ("" when there are none)
    \* ---- the object's backend, the callers of quantum_search, main
    service,            \* self.service
    backend,            \* self.backend
    entry,              \* the method called from outside
    pc,                 \* position of that call (of main: its next step)
    wrapper,            \* the last quantum_search_aer / _ibm call
    wrapper_pc,         \* position of that call
    old_backend,        \* its local old_backend
    pre_backend,        \* self.backend as it was when the call began
    backend_name,       \* argument backend_name / main's local
    engine_errors,      \* the methods whose execution engine raised
    classical_result,   \* what classical_bruteforce returned
    message,            \* main: the password entered
    ibm_available,      \* main: local ibm_available
    aer_result,         \* main: local aer_result
    ibm_result,         \* main: local ibm_result
    report              \* the rows display_three_way_comparison printed

vars == <<charset, length, arg, text, index, calls, raised,
          builder, n_qubits, target_index, iterations, qc, psi0, psi, hs, ip, dist,
          matches, search_space, quantum_iterations, qs_pc, result,
          counts, counts_from,
          service, backend, entry, pc, wrapper, wrapper_pc, old_backend,
          pre_backend, backend_name, engine_errors, classical_result,
          message, ibm_available, aer_result, ibm_result, report>>

codecVars == <<arg, text, index, calls, raised>>
circuitVars == <<builder, n_qubits, target_index, iterations, qc, psi0, psi, hs, ip, dist>>
searchVars == <<matches, search_space, quantum_iterations, qs_pc, result,
                counts, counts_from>>
objectVars == <<service, backend>>
callerVars == <<entry, pc, wrapper, wrapper_pc, old_backend, pre_backend,
                backend_name, engine_errors>>
mainVars == <<classical_result, message, ibm_available, aer_result, ibm_result,
              report>>
runVars == <<objectVars, callerVars, mainVars>>

---------------------------------------------------------------------------
(* Bounds of the model *)

NumSymbols == 3         \* characters a charset is drawn from
MaxLen == 4             \* longest text of the codec runs
MaxOver == 2            \* how far beyond B^L an index argument may lie
MaxCalls == 2           \* codec calls chained in one run
MaxQubits == 3          \* widest register of the circuit runs
MaxAmp == 1             \* largest input amplitude (in absolute value)
MaxIters == 2           \* most Grover iterations of the circuit runs
MaxSearchLen == 2       \* longest password of the quantum_search runs
MaxBase == 3            \* largest charset of the quantum_search runs

Universe == <<"a", "b", "c", "d", "e", "f", "g", "h">>
Symbols == {Universe[i] : i \in 1..NumSymbols}

\* the value Python's None stands for where an index is expected
None == -1

---------------------------------------------------------------------------
(* Arithmetic and sequence helpers *)

RECURSIVE Pow(_, _)
Pow(b, e) == IF e <= 0 THEN 1 ELSE b * Pow(b, e - 1)

Range(s) == {s[i] : i \in 1..Len(s)}

\* reversed(s)
Reversed(s) == [i \in 1..Len(s) |-> s[Len(s) + 1 - i]]

\* all sequences over S of length exactly n
SeqsOfLen(S, n) == [1..n -> S]

\* duplicate-free sequences over S, of every size from 1 to |S|
Alphabets == {a \in UNION {SeqsOfLen(Symbols, n) : n \in 1..NumSymbols} :
                 \A i, j \in 1..Len(a) : a[i] = a[j] => i = j}

---------------------------------------------------------------------------
(* IndexCodec: text_to_index and index_to_text *)

\* self.charset.index(char): the 0-based position of the first occurrence
charset_index(cs, char) ==
    (CHOOSE i \in 1..Len(cs) : cs[i] = char /\ \A j \in 1..(i - 1) : cs[j] # char) - 1

\* calculate_search_space: len(self.charset) ** length
calculate_search_space(cs, len) == Pow(Len(cs), len)

\* the loop of text_to_index: position i (0-based) of reversed(text)
\* contributes charset.index(char) * base ** i
RECURSIVE text_to_index_loop(_, _, _, _)
text_to_index_loop(cs, rev, i, acc) ==
    IF i >= Len(rev) THEN acc
    ELSE text_to_index_loop(cs, rev, i + 1,
             acc + charset_index(cs, rev[i + 1]) * Pow(Len(cs), i))

\* mutant: enumerate(text) in place of enumerate(reversed(text))
text_to_index_forward(cs, t) == text_to_index_loop(cs, t, 0, 0)

text_to_index(cs, t) == text_to_index_loop(cs, Reversed(t), 0, 0)

\* the loop of index_to_text: `k` rounds left, each appends
\* charset[index % base] and floor-divides index by base
RECURSIVE index_to_text_loop(_, _, _, _)
index_to_text_loop(cs, idx, k, acc) ==
    IF k <= 0 THEN acc
    ELSE index_to_text_loop(cs, idx \div Len(cs), k - 1,
             Append(acc, cs[(idx % Len(cs)) + 1]))

\* mutant: the final reversed() forgotten
index_to_text_noreverse(cs, idx, len) == index_to_text_loop(cs, idx, len, <<>>)

index_to_text(cs, idx, len) == Reversed(index_to_text_loop(cs, idx, len, <<>>))

---------------------------------------------------------------------------
(* The values the variables of a part hold while another part runs *)

IdleCodec ==
    /\ arg = [kind |-> "none", text |-> <<>>, index |-> None]
    /\ text = <<>>
    /\ index = None
    /\ calls = <<>>
    /\ raised = ""

IdleCircuit ==
    /\ builder = "none"
    /\ n_qubits = 0
    /\ target_index = None
    /\ iterations = 0
    /\ qc = <<>>
    /\ psi0 = <<>>
    /\ psi = <<>>
    /\ hs = 0
    /\ ip = 0
    /\ dist = <<>>

\* quantum_search has returned nothing (yet)
NoResult == [success |-> FALSE, has_text |-> FALSE, measured_text |-> <<>>, counts |-> <<>>]

IdleSearch ==
    /\ matches = {}
    /\ search_space = 0
    /\ quantum_iterations = 0
    /\ qs_pc = "idle"
    /\ result = NoResult
    /\ counts = <<>>
    /\ counts_from = ""

\* classical_bruteforce has returned nothing (yet)
NoClassical == [has_text |-> FALSE, text |-> <<>>, attempts |-> 0]

\* a row of the report that shows nothing
NoRow == [skipped |-> TRUE, has_text |-> FALSE, text |-> <<>>,
          accuracy |-> [shown |-> FALSE, tenths |-> 0]]

\* no report has been printed (yet)
NoReport == [printed |-> FALSE, classical |-> NoClassical, aer |-> NoRow, ibm |-> NoRow]

\* a fresh object (self.service = None, self.backend = None) on which no
\* caller of quantum_search and no main is running
IdleRun ==
    /\ service = "None"
    /\ backend = "None"
    /\ entry = "none"
    /\ pc = "none"
    /\ wrapper = "none"
    /\ wrapper_pc = "idle"
    /\ old_backend = "unset"
    /\ pre_backend = "unset"
    /\ backend_name = "None"
    /\ engine_errors = {}
    /\ classical_result = NoClassical
    /\ message = <<>>
    /\ ibm_available = FALSE
    /\ aer_result = NoResult
    /\ ibm_result = NoResult
    /\ report = NoReport

---------------------------------------------------------------------------
(* Codec runs: an argument is drawn, then text_to_index and index_to_text  *)
(* are called in alternation, each on the value the previous call returned *)

\* the arguments a run starts from: any text of `len` characters (not all
\* need be in the charset), or any index up to a little beyond B^L
CodecArgs(cs, len) ==
    {[kind |-> "text", text |-> s, index |-> None] : s \in SeqsOfLen(Symbols, len)}
    \cup
    {[kind |-> "index", text |-> <<>>, index |-> i] :
        i \in 0..(calculate_search_space(cs, len) + MaxOver)}

InitCodec ==
    /\ charset \in Alphabets
    /\ length \in 0..MaxLen
    /\ arg \in CodecArgs(charset, length)
    /\ text = arg.text
    /\ index = arg.index
    /\ calls = <<>>
    /\ raised = ""
    /\ IdleCircuit
    /\ IdleSearch
    /\ IdleRun

\* which value the next call receives: the argument first, then the
\* previous call's result
HoldsText == IF calls = <<>> THEN arg.kind = "text"
             ELSE calls[Len(calls)] = "index_to_text"
HoldsIndex == IF calls = <<>> THEN arg.kind = "index"
              ELSE calls[Len(calls)] = "text_to_index"

\* index = self.text_to_index(text); charset.index raises ValueError on a
\* character that is not in the charset
TextToIndex ==
    /\ raised = ""
    /\ Len(calls) < MaxCalls
    /\ HoldsText
    /\ calls' = Append(calls, "text_to_index")
    /\ IF Range(text) \subseteq Range(charset)
       THEN /\ index' = text_to_index(charset, text)
            /\ raised' = ""
       ELSE /\ index' = index
            /\ raised' = "ValueError"
    /\ UNCHANGED <<charset, length, arg, text>>
    /\ UNCHANGED <<circuitVars, searchVars, runVars>>

\* text = self.index_to_text(index, length); no statement of it raises for
\* an index >= 0
IndexToText ==
    /\ raised = ""
    /\ Len(calls) < MaxCalls
    /\ HoldsIndex
    /\ calls' = Append(calls, "index_to_text")
    /\ text' = index_to_text(charset, index, length)
    /\ UNCHANGED <<charset, length, arg, index, raised>>
    /\ UNCHANGED <<circuitVars, searchVars, runVars>>

NextCodec == TextToIndex \/ IndexToText

SpecCodec == InitCodec /\ [][NextCodec]_vars

\* a text whose characters all belong to the charset
ValidText(cs, t) == Range(t) \subseteq Range(cs)

\* C1: for every duplicate-free charset, every length L and every text s of
\* L characters of the charset, index_to_text(text_to_index(s), L) = s: the
\* encoding raises nothing and decoding its result gives the text back.
C1_DecodeEncode ==
    (arg.kind = "text" /\ ValidText(charset, arg.text)) =>
        /\ raised = ""
        /\ calls = <<"text_to_index", "index_to_text">> => text = arg.text

\* C1 witness: a text of at least two different characters has been encoded
\* to a non-zero index and decoded again
C1_Witness ==
    /\ calls = <<"text_to_index", "index_to_text">>
    /\ arg.kind = "text"
    /\ raised = ""
    /\ Len(arg.text) >= 2
    /\ arg.text[1] # arg.text[Len(arg.text)]
    /\ index > 0

\* C2: for every charset of size B, every length L in 1..4 and every index
\* i with 0 <= i < B^L, text_to_index(index_to_text(i, L)) = i.
C2_EncodeDecode ==
    (/\ arg.kind = "index"
     /\ length \in 1..4
     /\ arg.index < calculate_search_space(charset, length)
     /\ calls = <<"index_to_text", "text_to_index">>) =>
        /\ raised = ""
        /\ index = arg.index

\* C2 witness: an index of several non-zero digits, at length 4, has been
\* decoded and encoded again
C2_Witness ==
    /\ calls = <<"index_to_text", "text_to_index">>
    /\ arg.kind = "index"
    /\ length = 4
    /\ Len(charset) >= 2
    /\ arg.index > Len(charset) + 1
    /\ arg.index < calculate_search_space(charset, length)
    /\ arg.index % Len(charset) # 0

\* C3: index_to_text(index, L) fails with IndexOutOfRange for every index
\* >= B^L and returns no text for it (no truncation, no wrap-around).
C3_OutOfRangeFails ==
    (/\ arg.kind = "index"
     /\ arg.index >= calculate_search_space(charset, length)
     /\ calls # <<>>
     /\ calls[1] = "index_to_text") =>
        raised = "IndexOutOfRange"

---------------------------------------------------------------------------
(* Circuits: the operations the builders emit.  An operation names its     *)
(* gate, the qubits it acts on (controls first, target last) and, for a    *)
(* measurement, the classical bits written.                                *)

X(q) == [g |-> "x", qs |-> <<q>>, cb |-> <<>>]
H(q) == [g |-> "h", qs |-> <<q>>, cb |-> <<>>]
MCX(controls, target) == [g |-> "mcx", qs |-> Append(controls, target), cb |-> <<>>]
Measure(qubits, clbits) == [g |-> "measure", qs |-> qubits, cb |-> clbits]

\* list(range(n)): 0, 1, ..., n - 1
range(n) == [i \in 1..n |-> i - 1]

\* the binary digits of t >= 0, most significant first ("0" for 0)
RECURSIVE BinDigits(_)
BinDigits(t) == IF t < 2 THEN <<t>> ELSE Append(BinDigits(t \div 2), t % 2)

\* format(target_index, f'0{n_qubits}b'): the binary digits, zero-padded on
\* the left to at least n characters (never cut)
format_binary(t, n) ==
    LET d == BinDigits(t)
        pad == n - Len(d)
    IN  IF pad <= 0 THEN d
        ELSE [i \in 1..n |-> IF i <= pad THEN 0 ELSE d[i - pad]]

\* for qubit, b in enumerate(bits): if b == '0': qc.x(qubit)
\* the X gates this loop appends, in order
flip_zero_bits(bits) ==
    LET zs == SelectSeq(range(Len(bits)), LAMBDA qubit : bits[qubit + 1] = 0)
    IN  [i \in 1..Len(zs) |-> X(zs[i])]

\* mutant: the X gates put on the qubits whose target bit is '1'
flip_one_bits(bits) ==
    LET os == SelectSeq(range(Len(bits)), LAMBDA qubit : bits[qubit + 1] = 1)
    IN  [i \in 1..Len(os) |-> X(os[i])]

\* "multi-controlled Z via H + MCX + H": qc.h(n - 1); if n > 1: qc.mcx(
\* list(range(n - 1)), n - 1); qc.h(n - 1)
multi_controlled_z(n) ==
    <<H(n - 1)>> \o (IF n > 1 THEN <<MCX(range(n - 1), n - 1)>> ELSE <<>>) \o <<H(n - 1)>>

\* mutant of _oracle: flips the qubits whose bit is '1'
oracle_flip_ones(qc0, n, t) ==
    LET bits == format_binary(t, n)
    IN  qc0 \o flip_one_bits(bits) \o multi_controlled_z(n) \o flip_one_bits(bits)

\* _oracle appends to the circuit it is given: the X gates, the phase flip
\* of the all-ones state, the same X gates again
_oracle(qc0, n, t) ==
    LET bits == format_binary(t, n)
    IN  qc0 \o flip_zero_bits(bits) \o multi_controlled_z(n) \o flip_zero_bits(bits)

\* for qubit in range(n): qc.h(qubit); qc.x(qubit)
diffusion_open(n) ==
    [i \in 1..(2 * n) |-> IF i % 2 = 1 THEN H((i - 1) \div 2) ELSE X((i - 1) \div 2)]

\* for qubit in range(n): qc.x(qubit); qc.h(qubit)
diffusion_close(n) ==
    [i \in 1..(2 * n) |-> IF i % 2 = 1 THEN X((i - 1) \div 2) ELSE H((i - 1) \div 2)]

\* mutant of _diffusion: the closing loop applies h before x, as the
\* opening loop does
diffusion_same_order(qc0, n) ==
    qc0 \o diffusion_open(n) \o multi_controlled_z(n) \o diffusion_open(n)

_diffusion(qc0, n) ==
    qc0 \o diffusion_open(n) \o multi_controlled_z(n) \o diffusion_close(n)

\* mutant: the loop of initial Hadamards left out
initial_superposition_none(n) == <<>>

\* for qubit in range(n_qubits): qc.h(qubit)
initial_superposition(n) == [i \in 1..n |-> H(i - 1)]

\* for _ in range(iterations): self._oracle(...); self._diffusion(...)
RECURSIVE grover_iterations(_, _, _, _)
grover_iterations(qc0, n, t, k) ==
    IF k <= 0 THEN qc0
    ELSE grover_iterations(_diffusion(_oracle(qc0, n, t), n), n, t, k - 1)

\* mutant: each round applies the diffusion before the oracle
RECURSIVE grover_iterations_swapped(_, _, _, _)
grover_iterations_swapped(qc0, n, t, k) ==
    IF k <= 0 THEN qc0
    ELSE grover_iterations_swapped(_oracle(_diffusion(qc0, n), n, t), n, t, k - 1)

create_grover_circuit_swapped(n, t, k) ==
    Append(grover_iterations_swapped(initial_superposition(n), n, t, k),
           Measure(range(n), range(n)))

\* qc = QuantumCircuit(n, n); the Hadamards; the iterations;
\* qc.measure(range(n), range(n))
create_grover_circuit(n, t, k) ==
    Append(grover_iterations(initial_superposition(n), n, t, k),
           Measure(range(n), range(n)))

---------------------------------------------------------------------------
(* The execution engine's gates on a state vector.  A basis state is the   *)
(* sequence of its qubits' values, qubit q at position q + 1.  The vector  *)
(* psi holds integers: the amplitude of b is psi[b] / Sqrt(2)^hs, where hs *)
(* counts the Hadamards applied, so every gate is exact.                   *)

Basis(n) == [1..n -> {0, 1}]

Flip(b, q) == [b EXCEPT ![q + 1] = 1 - @]

\* qc.x(q): Pauli-X exchanges the amplitudes of b and b with qubit q flipped
apply_x(v, q) == [b \in DOMAIN v |-> v[Flip(b, q)]]

\* qc.h(q): Hadamard, without its factor 1/Sqrt(2)
apply_h(v, q) ==
    [b \in DOMAIN v |-> IF b[q + 1] = 0 THEN v[b] + v[Flip(b, q)]
                                        ELSE v[Flip(b, q)] - v[b]]

\* qc.mcx(controls, target): X on the target where every control is 1
apply_mcx(v, controls, target) ==
    [b \in DOMAIN v |-> IF \A i \in 1..Len(controls) : b[controls[i] + 1] = 1
                        THEN v[Flip(b, target)] ELSE v[b]]

\* one operation of the circuit on the state vector; a measurement is left
\* to the end of the run and changes no amplitude here
apply_gate(v, op) ==
    CASE op.g = "x" -> apply_x(v, op.qs[1])
      [] op.g = "h" -> apply_h(v, op.qs[1])
      [] op.g = "mcx" -> apply_mcx(v, SubSeq(op.qs, 1, Len(op.qs) - 1), op.qs[Len(op.qs)])
      [] OTHER -> v

\* int(bits, 2) of a bit sequence, most significant first
RECURSIVE BitsValue(_)
BitsValue(b) ==
    IF Len(b) = 0 THEN 0
    ELSE 2 * BitsValue(SubSeq(b, 1, Len(b) - 1)) + b[Len(b)]

\* qc.measure(qubits, clbits) on basis state b: classical bit clbits[i]
\* receives the value of qubit qubits[i]; the value of classical bit c
clbit(b, op, c) ==
    b[op.qs[CHOOSE i \in 1..Len(op.cb) : op.cb[i] = c] + 1]

\* the key under which result.get_counts() reports basis state b: one
\* character per classical bit, the highest-numbered bit first and bit 0
\* last
counts_key(b, op) ==
    [j \in 1..Len(op.cb) |-> clbit(b, op, Len(op.cb) - j)]

\* the vector v without the powers of two all its entries share
RECURSIVE reduced(_)
reduced(v) ==
    IF (\A b \in DOMAIN v : v[b] % 2 = 0) /\ (\E b \in DOMAIN v : v[b] # 0)
    THEN reduced([b \in DOMAIN v |-> v[b] \div 2])
    ELSE v

\* the exact distribution behind result.get_counts(): under each key, the
\* weight of the basis state it reports, its squared amplitude up to the
\* factor all outcomes share; an outcome's probability is its weight over
\* the sum of all weights
get_counts(v, op) ==
    LET u == reduced(v)
    IN  [k \in {counts_key(b, op) : b \in DOMAIN v} |->
            LET b == CHOOSE x \in DOMAIN v : counts_key(x, op) = k IN u[b] * u[b]]

\* the input vectors of a run: every vector with one amplitude a in
\* -MaxAmp..MaxAmp on one basis state and 0 or 1 on all the others (the
\* basis vectors and the uniform vector among them), and one vector of
\* pairwise different amplitudes
InputVectors(n) ==
    {[b \in Basis(n) |-> IF b = s THEN a ELSE bg] :
        s \in Basis(n), a \in (-MaxAmp)..MaxAmp, bg \in 0..1}
    \cup {[b \in Basis(n) |-> BitsValue(b) - 1]}

\* |0...0>, the state of a fresh register
ZeroState(n) == [b \in Basis(n) |-> IF \A i \in 1..n : b[i] = 0 THEN 1 ELSE 0]

InitCircuit ==
    /\ charset = <<>>
    /\ length = 0
    /\ IdleCodec
    /\ IdleSearch
    /\ IdleRun
    /\ n_qubits \in 1..MaxQubits
    /\ builder \in {"_oracle", "_diffusion", "create_grover_circuit"}
    /\ target_index \in IF builder = "_diffusion" THEN {None}
                        ELSE 0..(Pow(2, n_qubits) - 1)
    /\ iterations \in IF builder = "create_grover_circuit" THEN 1..MaxIters ELSE {0}
    /\ psi0 \in IF builder = "create_grover_circuit" THEN {ZeroState(n_qubits)}
                ELSE InputVectors(n_qubits)
    /\ psi = psi0
    /\ qc = <<>>
    /\ hs = 0
    /\ ip = 0
    /\ dist = <<>>

\* self._oracle(qc, n_qubits, target_index) on an empty circuit
Oracle ==
    /\ builder = "_oracle"
    /\ qc = <<>>
    /\ qc' = _oracle(qc, n_qubits, target_index)
    /\ UNCHANGED <<builder, n_qubits, target_index, iterations, psi0, psi, hs, ip, dist>>
    /\ UNCHANGED <<charset, length, codecVars, searchVars, runVars>>

\* self._diffusion(qc, n_qubits) on an empty circuit
Diffusion ==
    /\ builder = "_diffusion"
    /\ qc = <<>>
    /\ qc' = _diffusion(qc, n_qubits)
    /\ UNCHANGED <<builder, n_qubits, target_index, iterations, psi0, psi, hs, ip, dist>>
    /\ UNCHANGED <<charset, length, codecVars, searchVars, runVars>>

\* qc = self.create_grover_circuit(n_qubits, target_index, iterations)
CreateGroverCircuit ==
    /\ builder = "create_grover_circuit"
    /\ qc = <<>>
    /\ qc' = create_grover_circuit(n_qubits, target_index, iterations)
    /\ UNCHANGED <<builder, n_qubits, target_index, iterations, psi0, psi, hs, ip, dist>>
    /\ UNCHANGED <<charset, length, codecVars, searchVars, runVars>>

\* the engine executes the next operation of the circuit; a measurement
\* fixes the distribution of the outcomes
ExecuteGate ==
    /\ builder # "none"
    /\ ip < Len(qc)
    /\ psi' = apply_gate(psi, qc[ip + 1])
    /\ hs' = IF qc[ip + 1].g = "h" THEN hs + 1 ELSE hs
    /\ ip' = ip + 1
    /\ dist' = IF qc[ip + 1].g = "measure" THEN get_counts(psi, qc[ip + 1]) ELSE dist
    /\ UNCHANGED <<builder, n_qubits, target_index, iterations, qc, psi0>>
    /\ UNCHANGED <<charset, length, codecVars, searchVars, runVars>>

NextCircuit == Oracle \/ Diffusion \/ CreateGroverCircuit \/ ExecuteGate

SpecCircuit == InitCircuit /\ [][NextCircuit]_vars

\* the circuit has been built and run to its end
Executed == qc # <<>> /\ ip = Len(qc)

\* Sqrt(2)^hs for an even hs
Scale == Pow(2, hs \div 2)

\* bit i (0-based, most significant first) of the n-bit number t
BitOf(t, n, i) == (t \div Pow(2, n - 1 - i)) % 2

\* the basis state that holds bit i of t on qubit i
TargetState(t, n) == [i \in 1..n |-> BitOf(t, n, i - 1)]

RECURSIVE SumOver(_, _)
SumOver(v, S) ==
    IF S = {} THEN 0
    ELSE LET b == CHOOSE x \in S : TRUE IN v[b] + SumOver(v, S \ {b})

\* the qubits (ascending) on which bit i of t is 0
ZeroQubits(t, n) == SelectSeq(range(n), LAMBDA q : BitOf(t, n, q) = 0)

\* C4: for every width n >= 2 and target_index in 0..2^n - 1, _oracle emits
\* X on the qubits whose target bit is 0, H on the last qubit, the
\* multi-controlled X, H on the last qubit and the same X gates again; run
\* on any amplitude vector, the sequence negates the amplitude of exactly
\* the basis state holding bit i (most significant first) of target_index
\* on qubit i, and leaves every other amplitude as it was.
C4_OraclePhaseFlip ==
    (builder = "_oracle" /\ n_qubits >= 2 /\ qc # <<>>) =>
        LET z == ZeroQubits(target_index, n_qubits)
            k == Len(z)
            last == n_qubits - 1
        IN  /\ Len(qc) = 2 * k + 3
            /\ \A i \in 1..k : qc[i] = X(z[i]) /\ qc[k + 3 + i] = X(z[i])
            /\ qc[k + 1] = H(last)
            /\ qc[k + 2] = MCX(range(last), last)
            /\ qc[k + 3] = H(last)
            /\ Executed =>
                 \A b \in Basis(n_qubits) :
                    psi[b] = Scale * (IF b = TargetState(target_index, n_qubits)
                                      THEN - psi0[b] ELSE psi0[b])

\* C4 witness: an oracle on 3 qubits, for a target of mixed bits, has run on
\* a vector whose target amplitude and some other amplitude are not zero
C4_Witness ==
    /\ builder = "_oracle"
    /\ Executed
    /\ n_qubits = 3
    /\ target_index = 5
    /\ psi0[TargetState(5, 3)] # 0
    /\ psi0[<<0, 1, 1>>] # 0
    /\ psi[TargetState(5, 3)] # 0

\* C5: with n_qubits = 1 the phase-flip construction (the part between the
\* X gates) has no multi-controlled gate and still acts as Pauli-Z: it
\* negates the amplitude of |1> and leaves that of |0>.
C5_SingleQubitPhaseFlip ==
    (/\ builder = "_oracle"
     /\ n_qubits = 1
     /\ target_index = 1
     /\ Executed) =>
        /\ \A i \in 1..Len(qc) : qc[i].g # "mcx"
        /\ psi[<<1>>] = - Scale * psi0[<<1>>]
        /\ psi[<<0>>] = Scale * psi0[<<0>>]

C7_CircuitLayout ==
    (builder = "create_grover_circuit" /\ qc # <<>>) =>
        LET n == n_qubits
            o == _oracle(<<>>, n, target_index)
            d == _diffusion(<<>>, n)
            blk == Len(o) + Len(d)
        IN  /\ Len(qc) = n + iterations * blk + 1
            /\ \A q \in 0..(n - 1) : qc[q + 1] = H(q)
            /\ \A j \in 0..(iterations - 1) :
                  /\ SubSeq(qc, n + j * blk + 1, n + j * blk + Len(o)) = o
                  /\ SubSeq(qc, n + j * blk + Len(o) + 1, n + (j + 1) * blk) = d
            /\ qc[Len(qc)] = Measure(range(n), range(n))
            /\ \A i \in 1..(Len(qc) - 1) : qc[i].g # "measure"

\* C7 witness: a circuit of two iterations on at least two qubits, for a
\* target that needs X gates, has been built
C7_Witness ==
    /\ builder = "create_grover_circuit"
    /\ qc # <<>>
    /\ iterations = 2
    /\ n_qubits >= 2
    /\ target_index = 1

\* the circuit of create_grover_circuit has run, measurement included
Measured == builder = "create_grover_circuit" /\ Executed

\* the weight of the keys that int(key, 2) reads as index i
WeightOn(i) == SumOver(dist, {k \in DOMAIN dist : BitsValue(k) = i})

\* the weight of all keys: WeightOn(i) / TotalWeight is the probability of
\* reading index i
TotalWeight == SumOver(dist, DOMAIN dist)

\* the keys no other key of the distribution outweighs
MostFrequent == {k \in DOMAIN dist : \A j \in DOMAIN dist : dist[j] <= dist[k]}

\* C11: the circuit create_grover_circuit(2, 2, 1) builds for the 4-symbol,
\* length-1 space, simulated exactly and read back as quantum_search reads
\* (int(key, 2) of the counts key), puts probability >= 0.9 on index 2.
C11_TwoQubitScenario ==
    (Measured /\ n_qubits = 2 /\ target_index = 2 /\ iterations = 1) =>
        10 * WeightOn(2) >= 9 * TotalWeight

\* C12 as stated: the circuit create_grover_circuit(1, 1, 1) builds for the
\* 2-symbol, length-1 space, simulated exactly, places 100% of the
\* measurement probability on index 1.
C12_SingleQubitCertain ==
    (Measured /\ n_qubits = 1 /\ target_index = 1 /\ iterations = 1) =>
        WeightOn(1) = TotalWeight

\* C12 amended: the circuit create_grover_circuit(1, 1, 1) builds, simulated
\* exactly, places exactly half of the measurement probability on index 1
\* and half on index 0.
C12_SingleQubitEvenSplit ==
    (Measured /\ n_qubits = 1 /\ target_index = 1 /\ iterations = 1) =>
        /\ 2 * WeightOn(1) = TotalWeight
        /\ 2 * WeightOn(0) = TotalWeight

\* C12 witness: the 1-qubit circuit for target 1 has run to its measurement
C12_Witness ==
    /\ Measured
    /\ n_qubits = 1
    /\ target_index = 1
    /\ iterations = 1
    /\ DOMAIN dist = {<<0>>, <<1>>}
    /\ hs > 0

\* the result of running the operations `ops`, in order, on the vector v
RECURSIVE run_gates(_, _)
run_gates(ops, v) ==
    IF ops = <<>> THEN v ELSE run_gates(Tail(ops), apply_gate(v, Head(ops)))

\* the number of Hadamards among the operations `ops`
count_h(ops) == Cardinality({i \in 1..Len(ops) : ops[i].g = "h"})

\* Hadamard on every qubit, the _oracle sequence for target 0, Hadamard on
\* every qubit
hadamard_oracle_hadamard(n) ==
    initial_superposition(n) \o _oracle(<<>>, n, 0) \o initial_superposition(n)

\* C18: for every n >= 1 the sequence _diffusion(n) emits acts on every
\* amplitude vector exactly as the sequence: Hadamard on every qubit, the
\* _oracle(n, target_index = 0) sequence, Hadamard on every qubit.
C18_DiffusionIsOracleZero ==
    (builder = "_diffusion" /\ Executed) =>
        LET ref == hadamard_oracle_hadamard(n_qubits)
        IN  /\ count_h(ref) = hs
            /\ run_gates(ref, psi0) = psi

\* C18 witness: a diffusion on 3 qubits has run on a vector of pairwise
\* different amplitudes, and its gate order differs from the reference's
C18_Witness ==
    /\ builder = "_diffusion"
    /\ Executed
    /\ n_qubits = 3
    /\ \A b, c \in Basis(3) : b # c => psi0[b] # psi0[c]
    /\ qc # hadamard_oracle_hadamard(3)
    /\ psi # psi0

\* C19: for every n >= 2 and target_index in 0..2^n - 1, when the engine's
\* most frequent outcome is the basis state the oracle marks (bit i of
\* target_index, most significant first, on qubit i), the index
\* quantum_search computes as int(key, 2) from that outcome's counts key
\* equals target_index.
C19_ReadbackMatchesOracle ==
    (/\ Measured
     /\ n_qubits >= 2
     /\ MostFrequent = {counts_key(TargetState(target_index, n_qubits), qc[Len(qc)])}) =>
        \A k \in MostFrequent : BitsValue(k) = target_index

---------------------------------------------------------------------------
(* quantum_search, up to the construction of the circuit *)

\* floor(log2(N)) for N >= 1
RECURSIVE FloorLog2(_)
FloorLog2(N) == IF N < 2 THEN 0 ELSE 1 + FloorLog2(N \div 2)

\* math.log2(N): the integer part of the logarithm, and whether the
\* logarithm is that integer.  (A double holds log2(N) closely enough for
\* math.ceil to be exact for every N < 2^48.)
math_log2(N) == [int |-> FloorLog2(N), exact |-> N = Pow(2, FloorLog2(N))]

math_ceil(x) == IF x.exact THEN x.int ELSE x.int + 1

\* mutant: int() in place of math.ceil()
qubit_count_truncated(N) == math_log2(N).int

\* n_qubits = math.ceil(math.log2(search_space))
qubit_count(N) == math_ceil(math_log2(N))

\* pi^2 to four decimals, as the fraction PiSqNum / PiSqDen: enough to
\* place pi/4 * sqrt(N) between two integers for every N < 5000
PiSqNum == 98696
PiSqDen == 10000

\* int(math.pi / 4 * math.sqrt(N)): the largest k with (4k)^2 <= pi^2 * N
grover_rounds(N) ==
    CHOOSE k \in 0..N : /\ 16 * k * k * PiSqDen <= PiSqNum * N
                        /\ 16 * (k + 1) * (k + 1) * PiSqDen > PiSqNum * N

max(a, b) == IF a >= b THEN a ELSE b

\* mutant: one round fewer and no floor of 1
optimal_iterations_less_one(N) == grover_rounds(N) - 1

\* optimal_iterations = max(1, int(math.pi / 4 * math.sqrt(search_space)))
optimal_iterations(N) == max(1, grover_rounds(N))

\* one pool of itertools.product: [x + [y] for x in result for y in pool]
product_step(res, pool) ==
    [i \in 1..(Len(res) * Len(pool)) |->
        Append(res[((i - 1) \div Len(pool)) + 1], pool[((i - 1) % Len(pool)) + 1])]

\* itertools.product(self.charset, repeat=length), as the list of its tuples
RECURSIVE itertools_product(_, _)
itertools_product(cs, repeat) ==
    IF repeat <= 0 THEN << <<>> >>
    ELSE product_step(itertools_product(cs, repeat - 1), cs)

\* the classical scan of quantum_search: the index of the first candidate
\* whose hash is target_hash, None when the loop ends without one
find_target_index(cs, len, hits) ==
    LET cands == itertools_product(cs, len)
        found == {i \in 1..Len(cands) : cands[i] \in hits}
    IN  IF found = {} THEN None
        ELSE text_to_index(cs, cands[CHOOSE i \in found : \A j \in found : i <= j])

\* Qiskit accepts a qubit number q of an n-qubit circuit when -n <= q < n
\* and raises CircuitError otherwise
ValidCircuit(ops, n) ==
    \A i \in 1..Len(ops) : \A j \in 1..Len(ops[i].qs) :
        ops[i].qs[j] >= - n /\ ops[i].qs[j] < n

\* the charsets of the search runs: the first B symbols, B = 1..MaxBase
SearchCharsets == {SubSeq(Universe, 1, B) : B \in 1..MaxBase}

InitSearch ==
    /\ charset \in SearchCharsets
    /\ length \in 0..MaxSearchLen
    /\ IdleCodec
    /\ IdleCircuit
    /\ matches \in {{}} \cup {{a, b} : a, b \in SeqsOfLen(Range(charset), length)}
    /\ search_space = 0
    /\ quantum_iterations = 0
    /\ qs_pc = "start"
    /\ result = NoResult
    /\ counts = <<>>
    /\ counts_from = ""
    /\ IdleRun

\* quantum_search, lines 157-171: the sizes, then the classical scan for the
\* target index; return (False, None, 0, {}) when nothing hashes to
\* target_hash
QuantumSearchBegin ==
    /\ qs_pc = "start"
    /\ search_space' = calculate_search_space(charset, length)
    /\ n_qubits' = qubit_count(search_space')
    /\ quantum_iterations' = optimal_iterations(search_space')
    /\ target_index' = find_target_index(charset, length, matches)
    /\ qs_pc' = IF target_index' = None THEN "returned" ELSE "build"
    /\ result' = NoResult
    /\ counts' = <<>>
    /\ counts_from' = ""
    /\ UNCHANGED <<charset, length, codecVars, matches>>
    /\ UNCHANGED runVars
    /\ UNCHANGED <<builder, iterations, qc, psi0, psi, hs, ip, dist>>

\* quantum_search, line 174: qc = self.create_grover_circuit(n_qubits,
\* target_index, optimal_iterations); an operation on a qubit the register
\* does not have raises CircuitError, which quantum_search does not catch
QuantumSearchBuild ==
    /\ qs_pc = "build"
    /\ builder' = "quantum_search"
    /\ iterations' = quantum_iterations
    /\ LET ops == create_grover_circuit(n_qubits, target_index, quantum_iterations)
       IN  IF ValidCircuit(ops, n_qubits)
           THEN /\ qc' = ops
                /\ qs_pc' = "built"
                /\ raised' = raised
           ELSE /\ qc' = qc
                /\ qs_pc' = "raised"
                /\ raised' = "CircuitError"
    /\ UNCHANGED <<charset, length, arg, text, index, calls>>
    /\ UNCHANGED <<n_qubits, target_index, psi0, psi, hs, ip, dist>>
    /\ UNCHANGED <<matches, search_space, quantum_iterations, result>>
    /\ UNCHANGED <<counts, counts_from, runVars>>

NextSearch == QuantumSearchBegin \/ QuantumSearchBuild

SpecSearch == InitSearch /\ [][NextSearch]_vars

\* quantum_search has computed its sizes
SizesComputed == qs_pc \in {"build", "built", "returned", "raised"}

\* C8: the qubit count n = ceil(log2(N)) quantum_search computes for the
\* search-space size N satisfies 2^n >= N when N > 1, is not smaller than
\* the count of any smaller size, and so the index text_to_index gives a
\* candidate of that length is below 2^n.
C8_QubitCount ==
    SizesComputed =>
        /\ search_space > 1 => Pow(2, n_qubits) >= search_space
        /\ \A M \in 1..search_space : qubit_count(M) <= n_qubits
        /\ \A M \in 2..search_space : qubit_count(M - 1) <= qubit_count(M)
        /\ target_index # None => target_index < Pow(2, n_qubits)
        /\ \A c \in SeqsOfLen(Range(charset), length) :
              text_to_index(charset, c) < Pow(2, n_qubits)

\* C8 witness: a space whose size is no power of two, with a target in the
\* upper half of the register
C8_Witness ==
    /\ SizesComputed
    /\ search_space = 9
    /\ n_qubits = 4
    /\ target_index = 8

\* C9: with a search space of size <= 1 (length 0) the qubit-count
\* computation fails with DegenerateSpace and quantum_search reports that
\* failure instead of going on to build or run a circuit on 0 qubits.
C9_DegenerateSpaceFails ==
    (SizesComputed /\ search_space <= 1) =>
        /\ qs_pc = "raised"
        /\ raised = "DegenerateSpace"

\* C10: the Grover iteration count quantum_search computes, stores in
\* self.quantum_iterations and passes to create_grover_circuit is >= 1 for
\* every search-space size >= 2.
C10_AtLeastOneIteration ==
    (SizesComputed /\ search_space >= 2) =>
        /\ quantum_iterations >= 1
        /\ \A M \in 2..search_space : optimal_iterations(M) >= 1
        /\ qs_pc = "built" => iterations = quantum_iterations

\* C10 witness: a circuit has been built for the smallest space, of size 2
\* (pi/4 * sqrt(2) = 1.11), and one for a space that takes two iterations
C10_Witness ==
    /\ qs_pc = "built"
    /\ \/ search_space = 2 /\ quantum_iterations = 1 /\ iterations = 1
       \/ search_space = 9 /\ quantum_iterations = 2 /\ iterations = 2

---------------------------------------------------------------------------
(* quantum_search from the built circuit on: execution on the backend, the *)
(* reading of the counts; classical_bruteforce; the report's accuracy      *)

MaxRunBase == 3         \* largest charset of the runs with execution
MaxRunLen == 1          \* longest password of the runs with execution
MaxKeys == 2            \* outcomes come from the keys of 0..MaxKeys - 1 and 2^n - 1
MaxMinor == 1           \* largest count of the lesser of two outcomes
MaxQuasiDen == 3        \* largest denominator of a quasi-probability

\* backend.run(transpiled, shots=1024), sampler.run([qc_transpiled], shots=1024)
shots == 1024

\* the names an IBM backend may have
BackendNames == {"ibm_brisbane"}

\* the n-character keys an engine's outcomes are drawn from
RunKeys(n) == {k \in Basis(n) : BitsValue(k) < MaxKeys \/ BitsValue(k) = Pow(2, n) - 1}

\* the pairs of different keys with neighbouring values, in both orders
KeyPairs(n) ==
    {p \in RunKeys(n) \X RunKeys(n) :
        /\ p[1] # p[2]
        /\ ~ \E k \in RunKeys(n) :
               \/ BitsValue(p[1]) < BitsValue(k) /\ BitsValue(k) < BitsValue(p[2])
               \/ BitsValue(p[2]) < BitsValue(k) /\ BitsValue(k) < BitsValue(p[1])}

\* the counts one of two outcomes may have
SplitCounts ==
    (1..MaxMinor) \cup {shots \div 2} \cup {shots - m : m \in 1..MaxMinor}

\* get_counts() of a run of 1024 shots: a dict, here its items in insertion
\* order, of one or two outcomes whose counts add up to the shots
EngineCounts(n) ==
    {<< <<k, shots>> >> : k \in RunKeys(n)}
    \cup
    {<< <<p[1], c>>, <<p[2], shots - c>> >> : p \in KeyPairs(n), c \in SplitCounts}

\* quasi[0].binary_probabilities(): binary string -> probability, one or
\* two outcomes, the probabilities fractions that add up to 1
QuasiDists(n) ==
    {<< <<k, [num |-> 1, den |-> 1]>> >> : k \in RunKeys(n)}
    \cup
    UNION {{<< <<p[1], [num |-> a, den |-> d]>>, <<p[2], [num |-> d - a, den |-> d]>> >> :
               p \in KeyPairs(n), a \in 1..(d - 1)} : d \in 2..MaxQuasiDen}

\* int(k) of a string of the characters 0 and 1: read in base ten
RECURSIVE int_decimal(_)
int_decimal(k) ==
    IF Len(k) = 0 THEN 0
    ELSE 10 * int_decimal(SubSeq(k, 1, Len(k) - 1)) + k[Len(k)]

\* int(v * 1024) of a fraction v >= 0
int_times_shots(v) == (v.num * shots) \div v.den

\* {format(int(k), f'0{n_qubits}b'): int(v * 1024) for k, v in probs.items()}
quasi_counts(probs, n) ==
    [i \in 1..Len(probs) |->
        <<format_binary(int_decimal(probs[i][1]), n), int_times_shots(probs[i][2])>>]

\* mutant: the first of the items with the smallest count
max_state_min(c) ==
    c[CHOOSE i \in 1..Len(c) : /\ \A j \in 1..Len(c) : c[j][2] >= c[i][2]
                               /\ \A j \in 1..(i - 1) : c[j][2] > c[i][2]]

\* max(counts.items(), key=lambda x: x[1]): the first, in the dict's order,
\* of the items with the largest count
max_state(c) ==
    c[CHOOSE i \in 1..Len(c) : /\ \A j \in 1..Len(c) : c[j][2] <= c[i][2]
                               /\ \A j \in 1..(i - 1) : c[j][2] < c[i][2]]

\* "parse result": what quantum_search returns for the counts c
parse_result(cs, len, t, c) ==
    IF c # <<>>
    THEN LET measured_index == BitsValue(max_state(c)[1])
         IN  [success |-> measured_index = t,
              has_text |-> TRUE,
              measured_text |-> index_to_text(cs, measured_index, len),
              counts |-> c]
    ELSE NoResult

\* mutant: attempts counted after the comparison
classical_bruteforce_count_after(cs, len, hits) ==
    LET cands == itertools_product(cs, len)
        found == {i \in 1..Len(cands) : cands[i] \in hits}
    IN  IF found = {} THEN [has_text |-> FALSE, text |-> <<>>, attempts |-> Len(cands)]
        ELSE LET i == CHOOSE x \in found : \A y \in found : x <= y
             IN  [has_text |-> TRUE, text |-> cands[i], attempts |-> i - 1]

\* classical_bruteforce: result and attempts (elapsed left out); attempts
\* has counted every candidate tried, the matching one included
classical_bruteforce(cs, len, hits) ==
    LET cands == itertools_product(cs, len)
        found == {i \in 1..Len(cands) : cands[i] \in hits}
    IN  IF found = {} THEN [has_text |-> FALSE, text |-> <<>>, attempts |-> Len(cands)]
        ELSE LET i == CHOOSE x \in found : \A y \in found : x <= y
             IN  [has_text |-> TRUE, text |-> cands[i], attempts |-> i]

\* max(result[3].values())
max_count(c) == max_state(c)[2]

\* f"{(num/den)*100:.1f}%": the percentage in tenths, rounded half to even
percent_1f(num, den) ==
    LET q == (num * 1000) \div den
        r == (num * 1000) % den
    IN  IF 2 * r < den THEN q
        ELSE IF 2 * r > den THEN q + 1
        ELSE IF q % 2 = 0 THEN q ELSE q + 1

\* the Accuracy column: "N/A" without counts, else max_count / 1024
accuracy(c) ==
    IF c = <<>> THEN [shown |-> FALSE, tenths |-> 0]
    ELSE [shown |-> TRUE, tenths |-> percent_1f(max_count(c), shots)]

---------------------------------------------------------------------------
(* Runs of one call from outside: quantum_search, quantum_search_aer,      *)
(* quantum_search_ibm, classical_bruteforce or main                        *)

\* main asks before it goes on with a larger search space
LargeSpace == 1000000

RunCharsets == {SubSeq(Universe, 1, B) : B \in 1..MaxRunBase}

\* the texts of `len` characters of the charset
Candidates(cs, len) == SeqsOfLen(Range(cs), len)

Entries == {"quantum_search", "quantum_search_aer", "quantum_search_ibm",
            "classical_bruteforce", "main"}

\* main works on a fresh object, whose charset is the full one (line 18)
FullCharset == SubSeq(Universe, 1, MaxRunBase)

InitRun ==
    /\ entry \in Entries
    /\ charset \in IF entry = "main" THEN {FullCharset} ELSE RunCharsets
    /\ length \in IF entry = "classical_bruteforce" THEN 0..MaxSearchLen
                  ELSE 0..MaxRunLen
    /\ IdleCodec
    /\ IdleCircuit
    /\ service \in {"None", "service"}
    /\ backend \in IF entry = "main" THEN {"None"}
                   ELSE IF service = "None" THEN {"None", "AerSimulator"}
                   ELSE {"None", "AerSimulator"} \cup BackendNames
    /\ backend_name \in IF entry = "quantum_search_ibm" THEN BackendNames ELSE {"None"}
    /\ matches \in IF entry = "main" THEN {{}}
                   ELSE IF entry = "classical_bruteforce"
                   THEN {{}} \cup {{a, b} : a, b \in Candidates(charset, length)}
                   ELSE {{}} \cup {{a} : a \in Candidates(charset, length)}
    /\ search_space = 0
    /\ quantum_iterations = 0
    /\ qs_pc = IF entry = "quantum_search" THEN "start" ELSE "idle"
    /\ result = NoResult
    /\ counts = <<>>
    /\ counts_from = ""
    /\ pc = IF entry = "main" THEN "setup" ELSE "call"
    /\ wrapper = "none"
    /\ wrapper_pc = "idle"
    /\ old_backend = "unset"
    /\ pre_backend = "unset"
    /\ engine_errors = {}
    /\ classical_result = NoClassical
    /\ message = <<>>
    /\ ibm_available = FALSE
    /\ aer_result = NoResult
    /\ ibm_result = NoResult
    /\ report = NoReport

\* quantum_search, lines 176-188: self.backend defaults to the Aer
\* simulator; the local run returns counts or raises, and nothing here
\* catches what it raises
QuantumSearchExecuteAer ==
    /\ qs_pc = "built"
    /\ backend \in {"None", "AerSimulator"}
    /\ backend' = "AerSimulator"
    /\ \/ /\ counts' \in EngineCounts(n_qubits)
          /\ counts_from' = "aer"
          /\ qs_pc' = "parse"
          /\ UNCHANGED <<raised, engine_errors>>
       \/ /\ raised' = "EngineError"
          /\ engine_errors' = engine_errors \cup {"aer"}
          /\ qs_pc' = "raised"
          /\ UNCHANGED <<counts, counts_from>>
    /\ UNCHANGED <<charset, length, arg, text, index, calls, circuitVars>>
    /\ UNCHANGED <<matches, search_space, quantum_iterations, result>>
    /\ UNCHANGED <<service, entry, pc, wrapper, wrapper_pc, old_backend,
                   pre_backend, backend_name, mainVars>>

\* quantum_search, lines 189-287: the IBM Runtime branch.  Whatever lines
\* 193-270 raise (self.service.backend, transpile, Sampler, the job) is
\* caught and answered with (False, None, 0, {}); otherwise counts are the
\* sampler's, or empty, or rebuilt from quasi-probabilities
QuantumSearchExecuteIbm ==
    /\ qs_pc = "built"
    /\ backend \notin {"None", "AerSimulator"}
    /\ \/ /\ result' = NoResult
          /\ engine_errors' = IF service = "None" THEN engine_errors
                              ELSE engine_errors \cup {"ibm"}
          /\ qs_pc' = "returned"
          /\ UNCHANGED <<counts, counts_from>>
       \/ /\ service # "None"
          /\ \/ counts' \in EngineCounts(n_qubits) /\ counts_from' = "sampler"
             \/ /\ counts' \in {quasi_counts(q, n_qubits) : q \in QuasiDists(n_qubits)}
                /\ counts_from' = "quasi"
             \/ counts' = <<>> /\ counts_from' = ""
          /\ qs_pc' = "parse"
          /\ UNCHANGED <<result, engine_errors>>
    /\ UNCHANGED <<charset, length, codecVars, circuitVars>>
    /\ UNCHANGED <<matches, search_space, quantum_iterations>>
    /\ UNCHANGED <<objectVars, entry, pc, wrapper, wrapper_pc, old_backend,
                   pre_backend, backend_name, mainVars>>

\* quantum_search, lines 291-299
QuantumSearchParse ==
    /\ qs_pc = "parse"
    /\ result' = parse_result(charset, length, target_index, counts)
    /\ qs_pc' = "returned"
    /\ UNCHANGED <<charset, length, codecVars, circuitVars>>
    /\ UNCHANGED <<matches, search_space, quantum_iterations, counts, counts_from>>
    /\ UNCHANGED runVars

\* main is at the call that runs method m
MainAt(m) == entry = "main" /\ pc = m

\* quantum_search_aer, lines 303-305, up to the call of quantum_search
QuantumSearchAerCall ==
    /\ (entry = "quantum_search_aer" /\ pc = "call") \/ MainAt("aer")
    /\ wrapper_pc # "inside"
    /\ qs_pc = "idle"
    /\ pre_backend' = backend
    /\ old_backend' = backend
    /\ backend' = "AerSimulator"
    /\ wrapper' = "quantum_search_aer"
    /\ wrapper_pc' = "inside"
    /\ qs_pc' = "start"
    /\ UNCHANGED <<charset, length, codecVars, circuitVars>>
    /\ UNCHANGED <<matches, search_space, quantum_iterations, result, counts, counts_from>>
    /\ UNCHANGED <<service, entry, pc, backend_name, engine_errors, mainVars>>

\* quantum_search_aer, lines 306-307, once quantum_search has returned
QuantumSearchAerReturn ==
    /\ wrapper = "quantum_search_aer"
    /\ wrapper_pc = "inside"
    /\ qs_pc = "returned"
    /\ backend' = old_backend
    /\ wrapper_pc' = "returned"
    /\ qs_pc' = "idle"
    /\ IF entry = "main"
       THEN aer_result' = result /\ pc' = "ibm"
       ELSE aer_result' = aer_result /\ pc' = "finished"
    /\ UNCHANGED <<charset, length, codecVars, circuitVars>>
    /\ UNCHANGED <<matches, search_space, quantum_iterations, result, counts, counts_from>>
    /\ UNCHANGED <<service, entry, wrapper, old_backend, pre_backend, backend_name,
                   engine_errors>>
    /\ UNCHANGED <<classical_result, message, ibm_available, ibm_result, report>>

\* main, lines 545 and 556: the IBM run is made when ibm_available and
\* backend_name
MainRunsIbm == ibm_available /\ backend_name # "None"

\* quantum_search_ibm, lines 311-316: return (False, None, 0, {}) at once
\* without a service, else up to the call of quantum_search
QuantumSearchIbmCall ==
    /\ (entry = "quantum_search_ibm" /\ pc = "call") \/ (MainAt("ibm") /\ MainRunsIbm)
    /\ wrapper_pc # "inside"
    /\ qs_pc = "idle"
    /\ pre_backend' = backend
    /\ wrapper' = "quantum_search_ibm"
    /\ IF service = "None"
       THEN /\ result' = NoResult
            /\ wrapper_pc' = "returned"
            /\ IF entry = "main"
               THEN ibm_result' = NoResult /\ pc' = "display"
               ELSE ibm_result' = ibm_result /\ pc' = "finished"
            /\ UNCHANGED <<old_backend, backend, qs_pc>>
       ELSE /\ old_backend' = backend
            /\ backend' = backend_name
            /\ wrapper_pc' = "inside"
            /\ qs_pc' = "start"
            /\ UNCHANGED <<result, ibm_result, pc>>
    /\ UNCHANGED <<charset, length, codecVars, circuitVars>>
    /\ UNCHANGED <<matches, search_space, quantum_iterations, counts, counts_from>>
    /\ UNCHANGED <<service, entry, backend_name, engine_errors>>
    /\ UNCHANGED <<classical_result, message, ibm_available, aer_result, report>>

\* quantum_search_ibm, lines 317-318, once quantum_search has returned
QuantumSearchIbmReturn ==
    /\ wrapper = "quantum_search_ibm"
    /\ wrapper_pc = "inside"
    /\ qs_pc = "returned"
    /\ backend' = old_backend
    /\ wrapper_pc' = "returned"
    /\ qs_pc' = "idle"
    /\ IF entry = "main"
       THEN ibm_result' = result /\ pc' = "display"
       ELSE ibm_result' = ibm_result /\ pc' = "finished"
    /\ UNCHANGED <<charset, length, codecVars, circuitVars>>
    /\ UNCHANGED <<matches, search_space, quantum_iterations, result, counts, counts_from>>
    /\ UNCHANGED <<service, entry, wrapper, old_backend, pre_backend, backend_name,
                   engine_errors>>
    /\ UNCHANGED <<classical_result, message, ibm_available, aer_result, report>>

\* classical_bruteforce, called from outside or by main (line 531)
ClassicalBruteforce ==
    /\ (entry = "classical_bruteforce" /\ pc = "call") \/ MainAt("classical")
    /\ classical_result' = classical_bruteforce(charset, length, matches)
    /\ pc' = IF entry = "main" THEN "aer" ELSE "finished"
    /\ UNCHANGED <<charset, length, codecVars, circuitVars, searchVars>>
    /\ UNCHANGED <<objectVars, entry, wrapper, wrapper_pc, old_backend, pre_backend,
                   backend_name, engine_errors>>
    /\ UNCHANGED <<message, ibm_available, aer_result, ibm_result, report>>

\* what main may be given as the password: any text of up to MaxRunLen
\* characters, of the charset or not
Messages ==
    UNION {SeqsOfLen(Range(SubSeq(Universe, 1, MaxRunBase + 1)), l) : l \in 0..MaxRunLen}

\* the texts of length `len` whose hash is that of message: the message,
\* alone or together with the first candidate
SameHash(cs, len, m) == {{m}, {m, itertools_product(cs, len)[1]}}

\* main, lines 432-525: the object is fresh; ibm_available and backend_name
\* follow from the service and the listing of its backends; the password is
\* read and checked (length, characters), a large search space is asked
\* about, and target_hash = simple_hash(message)
MainSetup ==
    /\ MainAt("setup")
    /\ ibm_available' \in IF service = "None" THEN {FALSE} ELSE BOOLEAN
    /\ backend_name' \in IF ibm_available' THEN BackendNames ELSE {"None"}
    /\ message' \in Messages
    /\ IF Len(message') # length \/ ~ (Range(message') \subseteq Range(charset))
       THEN pc' = "rejected" /\ matches' = matches
       ELSE /\ pc' \in IF calculate_search_space(charset, length) > LargeSpace
                       THEN {"classical", "rejected"} ELSE {"classical"}
            /\ matches' \in SameHash(charset, length, message')
    /\ UNCHANGED <<charset, length, codecVars, circuitVars>>
    /\ UNCHANGED <<search_space, quantum_iterations, qs_pc, result, counts, counts_from>>
    /\ UNCHANGED <<objectVars, entry, wrapper, wrapper_pc, old_backend, pre_backend,
                   engine_errors>>
    /\ UNCHANGED <<classical_result, aer_result, ibm_result, report>>

\* main, lines 556-557: ibm_result = (False, None, 0, {}) without an IBM run
MainSkipIbm ==
    /\ MainAt("ibm")
    /\ ~ MainRunsIbm
    /\ ibm_result' = NoResult
    /\ pc' = "display"
    /\ UNCHANGED <<charset, length, codecVars, circuitVars, searchVars>>
    /\ UNCHANGED <<objectVars, entry, wrapper, wrapper_pc, old_backend, pre_backend,
                   backend_name, engine_errors>>
    /\ UNCHANGED <<classical_result, message, ibm_available, aer_result, report>>

\* the rows display_three_way_comparison prints: the Aer row always, the
\* IBM row as "(skipped)" when ibm_result[1] is None
display_three_way_comparison(cl, aer, ibm) ==
    [printed |-> TRUE,
     classical |-> cl,
     aer |-> [skipped |-> FALSE, has_text |-> aer.has_text, text |-> aer.measured_text,
              accuracy |-> accuracy(aer.counts)],
     ibm |-> IF ibm.has_text
             THEN [skipped |-> FALSE, has_text |-> TRUE, text |-> ibm.measured_text,
                   accuracy |-> accuracy(ibm.counts)]
             ELSE NoRow]

\* main, lines 559-569
DisplayThreeWayComparison ==
    /\ MainAt("display")
    /\ report' = display_three_way_comparison(classical_result, aer_result, ibm_result)
    /\ pc' = "finished"
    /\ UNCHANGED <<charset, length, codecVars, circuitVars, searchVars>>
    /\ UNCHANGED <<objectVars, entry, wrapper, wrapper_pc, old_backend, pre_backend,
                   backend_name, engine_errors>>
    /\ UNCHANGED <<classical_result, message, ibm_available, aer_result, ibm_result>>

NextRun ==
    \/ QuantumSearchBegin
    \/ QuantumSearchBuild
    \/ QuantumSearchExecuteAer
    \/ QuantumSearchExecuteIbm
    \/ QuantumSearchParse
    \/ QuantumSearchAerCall
    \/ QuantumSearchAerReturn
    \/ QuantumSearchIbmCall
    \/ QuantumSearchIbmReturn
    \/ ClassicalBruteforce
    \/ MainSetup
    \/ MainSkipIbm
    \/ DisplayThreeWayComparison

SpecRun == InitRun /\ [][NextRun]_vars

\* quantum_search has returned what it read from counts that are not empty
Parsed == qs_pc = "returned" /\ counts # <<>>

\* C13: for every non-empty measurement distribution, quantum_search picks
\* a bitstring w whose count is >= the count of every other bitstring,
\* returns measured_text = index_to_text(int(w, 2), length) and success =
\* True exactly when int(w, 2) = target_index; a winning index >= B^L is
\* reported as a non-match.
C13_WinnerDecoded ==
    Parsed =>
        \E i \in 1..Len(counts) :
            LET w == counts[i][1]
            IN  /\ \A j \in 1..Len(counts) : counts[j][2] <= counts[i][2]
                /\ result.has_text
                /\ result.measured_text = index_to_text(charset, BitsValue(w), length)
                /\ result.success <=> (BitsValue(w) = target_index)
                /\ BitsValue(w) >= calculate_search_space(charset, length)
                      => ~ result.success
                /\ result.counts = counts

\* C13 witness: of two outcomes the more frequent one, recorded second, is
\* an index outside the candidate space, and the search reports no match
C13_Witness ==
    /\ Parsed
    /\ Len(counts) = 2
    /\ counts[1][2] < counts[2][2]
    /\ BitsValue(counts[2][1]) >= search_space
    /\ result.has_text
    /\ ~ result.success

\* the dicts that hold the items of c, recorded in any order
Reorderings(c) ==
    {[i \in 1..Len(c) |-> c[f[i]]] :
        f \in {g \in [1..Len(c) -> 1..Len(c)] : \A i, j \in 1..Len(c) : g[i] = g[j] => i = j}}

\* C14: when two or more bitstrings share the maximum count, the winner
\* quantum_search chooses depends on the distribution's contents alone: a
\* distribution with the same bitstring -> count mapping, its outcomes
\* recorded in another order, yields the same winner and the same result.
C14_TieBreakByContents ==
    Parsed =>
        \A c \in Reorderings(counts) :
            LET r == parse_result(charset, length, target_index, c)
            IN  /\ max_state(c) = max_state(counts)
                /\ r.measured_text = result.measured_text
                /\ r.success = result.success

\* the observations of a distribution: the sum of its counts
total_count(c) == SumOver([i \in 1..Len(c) |-> c[i][2]], 1..Len(c))

\* a row of the report shows the accuracy max_count / total of the counts c
ShowsAccuracyOf(row, c) ==
    /\ row.accuracy.shown
    /\ total_count(c) > 0
    /\ row.accuracy.tenths = percent_1f(max_count(c), total_count(c))

\* C15: for every non-empty distribution a search returns (Aer counts,
\* sampler counts, counts rebuilt from quasi-probabilities as int(v * 1024))
\* the accuracy shown in the comparison report is max_count divided by the
\* number of observations in the distribution, the sum of its counts.
C15_AccuracyOverObservations ==
    report.printed =>
        /\ aer_result.counts # <<>> => ShowsAccuracyOf(report.aer, aer_result.counts)
        /\ ibm_result.counts # <<>> => ShowsAccuracyOf(report.ibm, ibm_result.counts)

\* C16: in the comparison run of main, when the execution engine of a
\* method (Aer, IBM) raises, the run is not aborted by the exception: it
\* goes on to display_three_way_comparison, which reports that method's row
\* as skipped/failed, and that method's result carries no decoded text.
C16_EngineFailureSkipsRow ==
    entry = "main" =>
        /\ engine_errors # {} => qs_pc # "raised"
        /\ ("aer" \in engine_errors /\ report.printed) =>
              report.aer.skipped /\ ~ aer_result.has_text
        /\ ("ibm" \in engine_errors /\ report.printed) =>
              report.ibm.skipped /\ ~ ibm_result.has_text

\* classical_bruteforce has returned
ClassicalDone == classical_result.attempts > 0

\* C17: classical_bruteforce scans the candidates of length L in ascending
\* index order and stops at the first whose digest is target_hash: for any
\* digest function (collisions allowed) it returns the matching candidate of
\* minimum index, with attempts = text_to_index(result) + 1; with no match it
\* returns None with attempts = B^L.
C17_FirstMatchInIndexOrder ==
    ClassicalDone =>
        LET hits == matches \cap Candidates(charset, length)
        IN  IF hits = {}
            THEN /\ ~ classical_result.has_text
                 /\ classical_result.attempts = calculate_search_space(charset, length)
            ELSE /\ classical_result.has_text
                 /\ classical_result.text \in hits
                 /\ \A m \in hits : text_to_index(charset, classical_result.text)
                                       <= text_to_index(charset, m)
                 /\ classical_result.attempts
                       = text_to_index(charset, classical_result.text) + 1

\* C17 witness: two candidates of two characters share the digest, neither
\* is the first candidate, and the scan has returned the one of lower index
C17_Witness ==
    /\ ClassicalDone
    /\ entry = "classical_bruteforce"
    /\ length = 2
    /\ Cardinality(matches) = 2
    /\ classical_result.has_text
    /\ classical_result.attempts > Len(charset) + 1
    /\ classical_result.text[1] # classical_result.text[2]

\* a call of quantum_search_aer / quantum_search_ibm has finished: it has
\* returned, or an exception of the circuit's execution has left it
WrapperFinished ==
    /\ wrapper # "none"
    /\ \/ wrapper_pc = "returned"
       \/ wrapper_pc = "inside" /\ qs_pc = "raised" /\ raised = "EngineError"

\* C20: whenever a call of quantum_search_aer or quantum_search_ibm has
\* finished, by returning or by an exception raised during the circuit's
\* execution, self.backend is what it was right before the call; and
\* quantum_search_ibm without a service returns (False, None, 0, {}) and
\* leaves self.backend alone.
C20_BackendRestored ==
    /\ WrapperFinished => backend = pre_backend
    /\ (wrapper = "quantum_search_ibm" /\ wrapper_pc = "returned" /\ service = "None") =>
          result = NoResult /\ backend = pre_backend

---------------------------------------------------------------------------
(* Sessions: any sequence of calls of configure_ibm_runtime,               *)
(* select_backend, quantum_search, quantum_search_aer and                  *)
(* quantum_search_ibm on one QuantumHashCracker                            *)

\* the backend_name arguments of a session: the default of select_backend
\* and the IBM device names
ApiNames == {"aer_simulator"} \cup BackendNames

\* the methods of a session that run a circuit
ApiEntries == {"quantum_search", "quantum_search_aer", "quantum_search_ibm"}

\* __init__, lines 18-22, before it looks for credentials: the full
\* charset, self.service = None, self.backend = None.  The call of
\* configure_ibm_runtime that __init__ makes with credentials (line 33) is
\* the first call of the session.
InitApi ==
    /\ charset = FullCharset
    /\ length = 0
    /\ IdleCodec
    /\ IdleCircuit
    /\ IdleSearch
    /\ IdleRun

\* no call is running on the object: none was made yet, or the last one has
\* returned, or an exception has left it
CallOver ==
    \/ entry = "none"
    \/ entry = "quantum_search" /\ qs_pc \in {"returned", "raised"}
    \/ entry \in {"quantum_search_aer", "quantum_search_ibm"} /\
          (pc = "finished" \/ qs_pc = "raised")

\* configure_ibm_runtime, lines 42-67: self.service is assigned when
\* QiskitRuntimeService(...) is constructed, after save_account (line 51) or
\* from the saved account (line 61); when both attempts raise, nothing is
\* assigned
configure_ibm_runtime(svc, configured, saved) ==
    IF configured THEN "service"
    ELSE IF saved THEN "service"
    ELSE svc

ConfigureIbmRuntime ==
    /\ CallOver
    /\ \E configured, saved \in BOOLEAN :
          service' = configure_ibm_runtime(service, configured, saved)
    /\ UNCHANGED <<charset, length, codecVars, circuitVars, searchVars>>
    /\ UNCHANGED <<backend, callerVars, mainVars>>

\* select_backend without the test of self.service
select_backend_unguarded(svc, name) ==
    IF name = "aer_simulator" THEN "AerSimulator" ELSE name

\* select_backend, lines 71-80: the value assigned to self.backend
select_backend(svc, name) ==
    IF name = "aer_simulator" THEN "AerSimulator"
    ELSE IF svc # "None" THEN name
    ELSE "AerSimulator"

SelectBackend ==
    /\ CallOver
    /\ \E name \in ApiNames : backend' = select_backend(service, name)
    /\ UNCHANGED <<charset, length, codecVars, circuitVars, searchVars>>
    /\ UNCHANGED <<service, callerVars, mainVars>>

\* the target hashes of a session: the hash of no text of the length, or
\* that of the first candidate
ApiTargets(cs, len) == {{}, {itertools_product(cs, len)[1]}}

\* the next call of quantum_search, quantum_search_aer or quantum_search_ibm
\* reaches the object with its arguments (target_hash, length,
\* backend_name); what the call before it left in its locals is gone
ApiCall ==
    /\ CallOver
    /\ entry' \in ApiEntries
    /\ pc' = "call"
    /\ length' \in 0..MaxRunLen
    /\ matches' \in ApiTargets(charset, length')
    /\ backend_name' \in IF entry' = "quantum_search_ibm" THEN ApiNames ELSE {"None"}
    /\ qs_pc' = IF entry' = "quantum_search" THEN "start" ELSE "idle"
    /\ raised' = ""
    /\ result' = NoResult
    /\ counts' = <<>>
    /\ counts_from' = ""
    /\ wrapper' = "none"
    /\ wrapper_pc' = "idle"
    /\ old_backend' = "unset"
    /\ pre_backend' = "unset"
    /\ engine_errors' = {}
    /\ UNCHANGED <<charset, arg, text, index, calls, circuitVars>>
    /\ UNCHANGED <<search_space, quantum_iterations>>
    /\ UNCHANGED <<objectVars, mainVars>>

NextApi ==
    \/ ConfigureIbmRuntime
    \/ SelectBackend
    \/ ApiCall
    \/ QuantumSearchBegin
    \/ QuantumSearchBuild
    \/ QuantumSearchExecuteAer
    \/ QuantumSearchExecuteIbm
    \/ QuantumSearchParse
    \/ QuantumSearchAerCall
    \/ QuantumSearchAerReturn
    \/ QuantumSearchIbmCall
    \/ QuantumSearchIbmReturn

SpecApi == InitApi /\ [][NextApi]_vars

\* self.backend is neither None nor the local Aer simulator
BackendIsName == backend \notin {"None", "AerSimulator"}

\* quantum_search is at line 183 and will take the else branch (line 189):
\* self.backend is not None (line 177) and not an AerSimulator
EntersIbmBranch == qs_pc = "built" /\ BackendIsName

\* C21: after any sequence of calls of configure_ibm_runtime,
\* select_backend, quantum_search, quantum_search_aer and
\* quantum_search_ibm, self.backend is a backend name (not the local Aer
\* simulator) only if self.service is not None; hence quantum_search never
\* enters its IBM branch with self.service == None.
C21_IbmBackendNeedsService ==
    /\ BackendIsName => service # "None"
    /\ EntersIbmBranch => service # "None"

\* quantum_search, called directly, has run its IBM branch on the backend
\* that select_backend stored, and the sampler's counts are being read
C21_Witness ==
    /\ entry = "quantum_search"
    /\ backend \in BackendNames
    /\ qs_pc = "parse"
    /\ counts_from = "sampler"

=============================================================================
